---------------------------- MODULE Spec2Model ----------------------------
(***************************************************************************)
(* Model of the MangaDex request layer (src/src/utils/requests.ts) and of  *)
(* the auto-advancing carousel component (src/unnamed/part_000).           *)
(*                                                                         *)
(* Four specifications share one set of variables:                        *)
(*   SpecFetch     fetchJson alone: query serialisation, transport, parse  *)
(*   Spec          the four aggregators, every image fetch its own task    *)
(*   SpecCarousel  Carousel over every random offset, image host healthy   *)
(*   SpecUI        the carousel component's timer, scroll and cleanup      *)
(*                                                                         *)
(* JavaScript values are tagged records; text that is percent-encoded is a *)
(* sequence of one-character strings, other text is a string.              *)
(***************************************************************************)
EXTENDS Integers, Sequences, FiniteSets, TLC

VARIABLES
    \* ---- fetchJson (one call)
    fjPc,        \* "args" | "fetching" | "parsing" | "caught" | "done"
    fjParams,    \* the params object: <<key, value>> in insertion order
    fjUrl,       \* [endpoint, search] once the URL has been built
    fjRes,       \* what the transport answered
    fjErr,       \* the error held by the catch block
    fjOut,       \* how the returned promise settled
    console,     \* console.error calls, oldest first
    \* ---- the remote API
    corpus,      \* how many manga it knows: their ids are 1..corpus
    \* ---- one aggregator call
    aggPc,       \* "idle" | "listing" | "queries" | "covers" | "batch" | "done"
    aggKind,     \* which aggregator was called
    aggStep,     \* fetchTopListings: the cover lookup being awaited (1..3)
    net,         \* every request issued, in order of issue, with its answer
    tasks,       \* the async callbacks handed to Promise.all, in array order
    aggOut,      \* how the aggregator's promise settled
    \* ---- the MangaCarousel component
    uiPhase,       \* "off" | "rendered" | "mounted" | "detached" | "cleaned"
    refCurrent,    \* carouselRef.current is the element (TRUE) or null
    listener,      \* handleScroll is registered on the element
    intervalId,    \* the effect's intervalId variable (0: undefined)
    activeTimers,  \* ids of the intervals that are set and not cleared
    nextTimer,     \* the id the next setInterval returns
    slides,        \* carouselItems.length
    clientWidth,   \* the element's clientWidth
    scrollLeft,    \* the element's scrollLeft
    pendingScroll, \* a scroll event is queued for the element
    lastAdvance    \* the last move the interval callback made

fjVars == <<fjPc, fjParams, fjUrl, fjRes, fjErr, fjOut>>

aggVars == <<corpus, aggPc, aggKind, aggStep, net, tasks, aggOut>>

uiVars == <<uiPhase, refCurrent, listener, intervalId, activeTimers, nextTimer,
            slides, clientWidth, scrollLeft, pendingScroll, lastAdvance>>

vars == <<fjVars, console, aggVars, uiVars>>

(***************************************************************************)
(* Bounds                                                                  *)
(***************************************************************************)
MaxParams == 2      \* keys of a params object
AggCorpus == 4      \* manga known to the remote API under Spec
CorpusSize == 7     \* manga known to the remote API under SpecCarousel
MaxSlides == 4      \* items the carousel component is given
MaxTimers == 4      \* setInterval calls followed in one life of the component

(***************************************************************************)
(* Text                                                                    *)
(***************************************************************************)
RECURSIVE Join(_)
Join(cs) == IF cs = <<>> THEN "" ELSE Head(cs) \o Join(Tail(cs))

RECURSIVE Concat(_)
Concat(ss) == IF ss = <<>> THEN <<>> ELSE Head(ss) \o Concat(Tail(ss))

Digit(d) == <<"0", "1", "2", "3", "4", "5", "6", "7", "8", "9">>[d + 1]

RECURSIVE NumberToString(_)
NumberToString(n) ==
    IF n < 10 THEN <<Digit(n)>>
    ELSE NumberToString(n \div 10) \o <<Digit(n % 10)>>

(***************************************************************************)
(* JavaScript values that can be a query parameter (QueryParam)            *)
(***************************************************************************)
JsString(cs)  == [t |-> "string",  text |-> cs,   items |-> <<>>, entries |-> <<>>]
JsNumber(n)   == [t |-> "number",  text |-> NumberToString(n),
                  items |-> <<>>, entries |-> <<>>]
JsBoolean(b)  == [t |-> "boolean", text |-> IF b THEN <<"t","r","u","e">>
                                                 ELSE <<"f","a","l","s","e">>,
                  items |-> <<>>, entries |-> <<>>]
\* A Date: text is its String() rendering; it has no enumerable own property.
JsDate(cs)    == [t |-> "date",    text |-> cs,   items |-> <<>>, entries |-> <<>>]
JsArray(xs)   == [t |-> "array",   text |-> <<>>, items |-> xs,   entries |-> <<>>]
JsObject(kvs) == [t |-> "object",  text |-> <<>>, items |-> <<>>, entries |-> kvs]

Primitives == {"string", "number", "boolean", "date"}

\* typeof value === "object" (arrays are tested before, null is not a QueryParam)
TypeofIsObject(v) == v.t \in {"object", "date", "array"}

ParamKeys == { <<"i","d","s">>, <<"t">>, <<"1">> }

Asc  == <<"a","s","c">>
Desc == <<"d","e","s","c">>

ParamValues ==
    { JsString(<<"a">>), JsString(<<"a"," ","&","b">>), JsNumber(10),
      JsBoolean(TRUE), JsDate(<<"1","9","7","0">>),
      JsArray(<<>>), JsArray(<< <<"a">>, <<"b">> >>),
      JsObject(<<>>), JsObject(<< <<<<"u","p">>, Desc>> >>),
      JsObject(<< <<<<"f","c">>, Desc>>, <<<<"r">>, Asc>> >>) }

\* An integer-like key ("1"): Object.entries lists those first.
IsIndexKey(k) == k = <<"1">>

\* Object.entries: integer-like keys first, then the others in insertion order.
ObjectEntries(kvs) ==
    SelectSeq(kvs, LAMBDA kv : IsIndexKey(kv[1])) \o
    SelectSeq(kvs, LAMBDA kv : ~IsIndexKey(kv[1]))

(***************************************************************************)
(* serializeParameters: the pairs appended to the URLSearchParams          *)
(***************************************************************************)
\* value.forEach(val => searchParams.append(`${key}[]`, val))
ArrayPairs(key, xs) == [i \in 1..Len(xs) |-> <<key \o <<"[", "]">>, xs[i]>>]

\* Object.entries(value).forEach(([k, v]) => searchParams.append(`${key}[${k}]`, v))
ObjectPairs(key, v) ==
    LET es == ObjectEntries(v.entries)
    IN  [i \in 1..Len(es) |-> <<key \o <<"[">> \o es[i][1] \o <<"]">>, es[i][2]>>]

\* One entry of params: the three branches of the forEach callback.
EntryPairs(key, v) ==
    IF v.t = "array" THEN ArrayPairs(key, v.items)
    ELSE IF TypeofIsObject(v) THEN ObjectPairs(key, v)
    ELSE << <<key, v.text>> >>

AppendedPairs(kvs) ==
    LET es == ObjectEntries(kvs)
    IN  Concat([i \in 1..Len(es) |-> EntryPairs(es[i][1], es[i][2])])

\* application/x-www-form-urlencoded byte serialisation of one character
Unreserved ==
    { "a","b","c","d","e","f","i","l","o","p","r","s","t","u",
      "0","1","2","3","4","5","6","7","8","9", "*", "-", ".", "_" }

UrlEncodeChar(c) ==
    IF c \in Unreserved THEN <<c>>
    ELSE IF c = " " THEN <<"+">>
    ELSE IF c = "[" THEN <<"%","5","B">>
    ELSE IF c = "]" THEN <<"%","5","D">>
    ELSE IF c = "&" THEN <<"%","2","6">>
    ELSE IF c = "=" THEN <<"%","3","D">>
    ELSE <<"%","?","?">>

UrlEncode(cs) == Concat([i \in 1..Len(cs) |-> UrlEncodeChar(cs[i])])

\* URLSearchParams.prototype.toString
RECURSIVE SearchParamsToString(_)
SearchParamsToString(pairs) ==
    IF pairs = <<>> THEN <<>>
    ELSE UrlEncode(Head(pairs)[1]) \o <<"=">> \o UrlEncode(Head(pairs)[2]) \o
         (IF Tail(pairs) = <<>> THEN <<>>
          ELSE <<"&">> \o SearchParamsToString(Tail(pairs)))

serializeParameters(kvs) == SearchParamsToString(AppendedPairs(kvs))

baseUrl == "https://api.mangadex.org/"


(***************************************************************************)
(* Transport, errors and promise outcomes                                  *)
(***************************************************************************)
JsonNull         == [isNull |-> TRUE,  data |-> <<>>]
Collection(ids)  == [isNull |-> FALSE, data |-> ids]

NoResponse       == [kind |-> "none", status |-> 0, valid |-> FALSE, body |-> JsonNull]
NetworkFailure   == [kind |-> "network_error", status |-> 0, valid |-> FALSE,
                     body |-> JsonNull]
Http(st, ok, b)  == [kind |-> "http", status |-> st, valid |-> ok, body |-> b]

Statuses == {200, 299, 304, 404}

\* A res.ok that also takes redirections and "not modified" for a success.
ResOkBelow400(status) == status >= 200 /\ status <= 399

\* Response.ok
ResOk(status) == status >= 200 /\ status <= 299

NoError       == [name |-> "none", message |-> "", status |-> 0]
\* what fetch() rejects with when the request cannot be made
NetworkError  == [name |-> "TypeError", message |-> "fetch failed", status |-> 0]
\* what res.json() rejects with
ParseError    == [name |-> "SyntaxError", message |-> "Unexpected token", status |-> 0]
\* new Error(`HTTP error! Status: ${res.status}`)
HttpError(st) == [name |-> "Error",
                  message |-> "HTTP error! Status: " \o Join(NumberToString(st)),
                  status |-> st]

Pending       == [kind |-> "pending",  body |-> JsonNull, error |-> NoError]
Resolved(b)   == [kind |-> "resolved", body |-> b,        error |-> NoError]
Rejected(e)   == [kind |-> "rejected", body |-> JsonNull, error |-> e]

\* console.error(label, error)
LogEntry(label, e) == [label |-> label, error |-> e]

(***************************************************************************)
(* fetchJson, step by step                                                 *)
(***************************************************************************)
FjBodies == {JsonNull, Collection(<<1>>)}

FjResponses ==
    {NetworkFailure} \cup
    {Http(st, ok, b) : st \in Statuses, ok \in BOOLEAN, b \in FjBodies}

HasKey(kvs, k) == \E i \in 1..Len(kvs) : kvs[i][1] = k

\* The caller writes one more property into the params literal.
AddParam(k, v) ==
    /\ fjPc = "args"
    /\ Len(fjParams) < MaxParams
    /\ ~HasKey(fjParams, k)
    /\ fjParams' = Append(fjParams, <<k, v>>)
    /\ UNCHANGED <<fjPc, fjUrl, fjRes, fjErr, fjOut, console, aggVars, uiVars>>

\* Lines 118-124: build the URL, set its search, call fetch.
FetchJsonCall ==
    /\ fjPc = "args"
    /\ fjUrl' = [endpoint |-> baseUrl \o "manga",
                 search |-> serializeParameters(fjParams)]
    /\ fjPc' = "fetching"
    /\ UNCHANGED <<fjParams, fjRes, fjErr, fjOut, console, aggVars, uiVars>>

\* Lines 124-127: await fetch(url, config) settles; a response that is not ok throws.
FetchSettle(r) ==
    /\ fjPc = "fetching"
    /\ fjRes' = r
    /\ IF r.kind = "network_error"
         THEN fjErr' = NetworkError /\ fjPc' = "caught"
       ELSE IF ~ResOk(r.status)
         THEN fjErr' = HttpError(r.status) /\ fjPc' = "caught"
       ELSE fjErr' = fjErr /\ fjPc' = "parsing"
    /\ UNCHANGED <<fjParams, fjUrl, fjOut, console, aggVars, uiVars>>

\* Line 128: return await res.json()
JsonSettle ==
    /\ fjPc = "parsing"
    /\ IF fjRes.valid
         THEN fjOut' = Resolved(fjRes.body) /\ fjPc' = "done" /\ fjErr' = fjErr
         ELSE fjErr' = ParseError /\ fjPc' = "caught" /\ fjOut' = fjOut
    /\ UNCHANGED <<fjParams, fjUrl, fjRes, console, aggVars, uiVars>>

\* Lines 129-132: console.error("Fetch error:", error); throw error
CatchRethrow ==
    /\ fjPc = "caught"
    /\ console' = Append(console, LogEntry("Fetch error:", fjErr))
    /\ fjOut' = Rejected(fjErr)
    /\ fjPc' = "done"
    /\ UNCHANGED <<fjParams, fjUrl, fjRes, fjErr, aggVars, uiVars>>

FjInit ==
    /\ fjPc = "args"
    /\ fjParams = <<>>
    /\ fjUrl = [endpoint |-> "", search |-> <<>>]
    /\ fjRes = NoResponse
    /\ fjErr = NoError
    /\ fjOut = Pending

AggOff ==
    /\ corpus = 0
    /\ aggPc = "off"
    /\ aggKind = "none"
    /\ aggStep = 0
    /\ net = <<>>
    /\ tasks = <<>>
    /\ aggOut = [kind |-> "pending", value |-> <<>>, lists |-> <<>>, error |-> NoError]

NoAdvance == [from |-> 0, to |-> 0, of |-> 0, made |-> FALSE]

UiOff ==
    /\ uiPhase = "off"
    /\ refCurrent = FALSE
    /\ listener = FALSE
    /\ intervalId = 0
    /\ activeTimers = {}
    /\ nextTimer = 1
    /\ slides = 0
    /\ clientWidth = 0
    /\ scrollLeft = 0
    /\ pendingScroll = FALSE
    /\ lastAdvance = NoAdvance

InitFetch == FjInit /\ AggOff /\ UiOff /\ console = <<>>

NextFetch ==
    \/ \E k \in ParamKeys, v \in ParamValues : AddParam(k, v)
    \/ FetchJsonCall
    \/ \E r \in FjResponses : FetchSettle(r)
    \/ JsonSettle
    \/ CatchRethrow

SpecFetch == InitFetch /\ [][NextFetch]_vars

\* What a whole fetchJson call comes to for a given transport answer: the
\* settlement of its promise and what it logged on the way.
fetchJsonOutcome(r) ==
    IF r.kind = "network_error" THEN Rejected(NetworkError)
    ELSE IF ~ResOk(r.status) THEN Rejected(HttpError(r.status))
    ELSE IF ~r.valid THEN Rejected(ParseError)
    ELSE Resolved(r.body)


(***************************************************************************)
(* The remote API's corpus.  An entity is one manga of a collection's      *)
(* data; only the fields the aggregators read are kept.                    *)
(***************************************************************************)
Undefined == "<undefined>"

\* `${x}` in a template literal
TemplateString(x) == IF x = Undefined THEN "undefined" ELSE x

IdOf(n) == "m" \o Join(NumberToString(n))

\* attributes.title, a KeyValue: a language that is missing reads as undefined
TitleOfEntity(n) ==
    CASE n % 5 = 2 -> [en |-> Undefined, jaro |-> "Foo",     ja |-> Undefined]
      [] n % 5 = 3 -> [en |-> "",        jaro |-> "Bar",     ja |-> "Ja"]
      [] n % 5 = 4 -> [en |-> "Baz",     jaro |-> "Qux",     ja |-> Undefined]
      [] n % 5 = 0 -> [en |-> Undefined, jaro |-> Undefined, ja |-> "Nihongo"]
      [] OTHER     -> [en |-> "Only",    jaro |-> Undefined, ja |-> Undefined]

CoverArt(n) == [type |-> "cover_art", fileName |-> "c" \o Join(NumberToString(n)) \o ".jpg"]
Author      == [type |-> "author", fileName |-> Undefined]

\* relationships: manga 1 has an author but no cover art, manga 8 has no
\* relationships field at all, every other manga has both.
HasRelationships(n) == n # 8
RelationshipsOf(n) ==
    IF n = 8 THEN <<>>
    ELSE IF n = 1 THEN <<Author>>
    ELSE <<Author, CoverArt(n)>>

(***************************************************************************)
(* Requests to the API and what it can answer                              *)
(***************************************************************************)
\* The ids argument of fetchCovers: an array, or undefined when the listing
\* was null (latest?.data.map(...) is then undefined).
NoIds       == [kind |-> "absent",    list |-> <<>>]
UndefinedIds == [kind |-> "undefined", list |-> <<>>]
Ids(xs)     == [kind |-> "array",     list |-> xs]

Query(order, offset, limit, title, ids) ==
    [order |-> order, offset |-> offset, limit |-> limit, title |-> title, ids |-> ids]
NoQuery == Query("", 0, 0, "", NoIds)

Min(a, b) == IF a < b THEN a ELSE b

RECURSIVE Ascending(_, _)
Ascending(a, b) == IF a > b THEN <<>> ELSE <<a>> \o Ascending(a + 1, b)

Reverse(xs) == [i \in 1..Len(xs) |-> xs[Len(xs) + 1 - i]]

InSeq(x, xs) == \E i \in 1..Len(xs) : xs[i] = x

\* The order the API ranks its corpus in.  The three rankings of the top
\* listings do not hold the same manga.
Ranking(order) ==
    CASE order = "rating"          -> Reverse(Ascending(2, corpus))
      [] order = "readingProgress" -> Ascending(3, corpus) \o <<1>>
      [] OTHER                     -> Ascending(1, corpus)

\* title filter of the search endpoint
MatchesTitle(n, term) ==
    \/ term = ""
    \/ term = "foo" /\ TitleOfEntity(n).jaro = "Foo"
    \/ term = "a"   /\ TitleOfEntity(n).jaro \in {"Bar", "Qux"}

\* The page a list call gets: rank, filter by ids and title, cut the window.
\* An empty ids array serialises to no ids[] pair at all (ArrayPairs), so the
\* API then sees no filter; ids=undefined names no manga.
ServerPage(q) ==
    LET ranked   == Ranking(q.order)
        filtered == SelectSeq(ranked, LAMBDA n :
                        /\ MatchesTitle(n, q.title)
                        /\ (q.ids.kind = "array" /\ q.ids.list # <<>>)
                               => InSeq(n, q.ids.list))
        \* limit 0 stands for a request that carries no limit
        first    == q.offset + 1
        last     == IF q.limit = 0 THEN Len(filtered)
                    ELSE Min(Len(filtered), q.offset + q.limit)
    IN  IF q.ids.kind = "undefined" THEN <<>>
        ELSE IF first > last THEN <<>>
        ELSE SubSeq(filtered, first, last)

ApiStatuses == {200, 404}

ApiResponses(q) ==
    {NetworkFailure} \cup
    {Http(st, ok, b) : st \in ApiStatuses, ok \in BOOLEAN,
                       b \in {JsonNull, Collection(ServerPage(q))}}

(***************************************************************************)
(* Program constants of the aggregators                                    *)
(***************************************************************************)
LatestLimit       == 60     \* fetchLatestChapters(0, 60)
CoversLimit       == 100    \* fetchCovers: limit = 100
CarouselLimit     == 20     \* Carousel: limit: 20
CarouselCount     == 6      \* getRandomManga(manga, 6)
TopLimit          == 10     \* fetchTopListings: limit: 10
RandomOffsetRange == 200    \* Math.floor(Math.random() * 200)

Aggregators == {"getLatestManga", "searchManga", "Carousel", "fetchTopListings"}
WithCover   == {"getLatestManga", "searchManga", "Carousel"}

SearchTerms == {"foo", "a", "zzz"}

\* fetchCovers(ids, order): offset = 0, limit = 100
fetchCoversQuery(ids, order) == Query(order, 0, CoversLimit, "", ids)

\* The order field of each of the three ranked queries of fetchTopListings.
TopOrder(i) == <<"followedCount", "rating", "readingProgress">>[i]

(***************************************************************************)
(* View models                                                             *)
(***************************************************************************)
Falsy(x) == x = Undefined \/ x = ""

\* a || b
Or(a, b) == IF Falsy(a) THEN b ELSE a

\* title: k?.attributes?.title?.en || ...?.["ja-ro"] || ...?.ja
LatestTitle(t) == Or(Or(t.en, t.jaro), t.ja)

\* A title without its fallback: manga.attributes.title.en
CarouselTitleEnOnly(t) == t.en

\* title: manga.attributes.title.en || manga?.attributes?.title?.["ja-ro"]
CarouselTitle(t) == Or(t.en, t.jaro)

TitleFor(kind, t) == IF kind = "Carousel" THEN CarouselTitle(t) ELSE LatestTitle(t)

CoverArtOf(n) == SelectSeq(RelationshipsOf(n), LAMBDA t : t.type = "cover_art")

\* k?.relationships?.find((t) => t?.type === "cover_art")?.attributes?.fileName
LatestCoverFile(n) ==
    [threw |-> FALSE,
     file  |-> IF ~HasRelationships(n) \/ CoverArtOf(n) = <<>> THEN Undefined
               ELSE CoverArtOf(n)[1].fileName]

\* manga.relationships.find((t) => t.type === "cover_art").attributes.fileName
CarouselCoverFile(n) ==
    IF ~HasRelationships(n) \/ CoverArtOf(n) = <<>>
      THEN [threw |-> TRUE, file |-> Undefined]
      ELSE [threw |-> FALSE, file |-> CoverArtOf(n)[1].fileName]

CoverFileFor(kind, n) ==
    IF kind = "Carousel" THEN CarouselCoverFile(n) ELSE LatestCoverFile(n)

CoverUrl(id, file) ==
    "https://uploads.mangadex.org/covers/" \o TemplateString(id) \o "/" \o
    TemplateString(file) \o ".256.jpg"

\* reading a property of undefined
PropertyError == [name |-> "TypeError",
                  message |-> "Cannot read properties of undefined", status |-> 0]

\* new Error(`Failed to fetch image (${response.status}): ...`)
ImageError(st) == [name |-> "Error",
                   message |-> "Failed to fetch image (" \o Join(NumberToString(st)) \o ")",
                   status |-> st]

ImgResponses == {Http(200, TRUE, JsonNull), Http(404, TRUE, JsonNull), NetworkFailure}
ImgOk        == Http(200, TRUE, JsonNull)

\* A fetchCover that swallows its failures and returns no image.
fetchCoverSwallowing(url, r) ==
    IF r.kind = "network_error" \/ ~ResOk(r.status)
      THEN [ok |-> TRUE, cover |-> "", error |-> NoError]
      ELSE [ok |-> TRUE, cover |-> "data:image/jpeg;base64," \o "b64<" \o url \o ">",
            error |-> NoError]

\* fetchCover(image) for a given answer of the image host
fetchCoverOutcome(url, r) ==
    IF r.kind = "network_error" THEN [ok |-> FALSE, cover |-> "", error |-> NetworkError]
    ELSE IF ~ResOk(r.status)
      THEN [ok |-> FALSE, cover |-> "", error |-> ImageError(r.status)]
    ELSE [ok |-> TRUE, cover |-> "data:image/jpeg;base64," \o "b64<" \o url \o ">",
          error |-> NoError]

\* The async callback of map(), run up to its await: it throws, or it has
\* called fetchCover.
StartTask(kind, n) ==
    LET f == CoverFileFor(kind, n)
    IN  [id |-> n, file |-> f.file,
         state |-> IF f.threw THEN "threw" ELSE "inflight",
         url   |-> IF f.threw THEN "" ELSE CoverUrl(IdOf(n), f.file),
         title |-> Undefined, cover |-> "",
         error |-> IF f.threw THEN PropertyError ELSE NoError]

ViewModel(t) == [id |-> t.id, title |-> t.title, cover |-> t.cover]

NetEntry(slot, idx, q, url) ==
    [slot |-> slot, idx |-> idx, q |-> q, url |-> url, res |-> NoResponse]

AggPending         == [kind |-> "pending",  value |-> <<>>, lists |-> <<>>, error |-> NoError]
AggResolved(vms)   == [kind |-> "resolved", value |-> vms,  lists |-> <<>>, error |-> NoError]
AggResolvedTop(ls) == [kind |-> "resolved", value |-> <<>>, lists |-> ls,   error |-> NoError]
AggRejected(e)     == [kind |-> "rejected", value |-> <<>>, lists |-> <<>>, error |-> e]

\* the label of each aggregator's console.error (searchManga logs as getLatestManga)
CatchLabel(kind) ==
    CASE kind = "Carousel"         -> "Error in Carousel:"
      [] kind = "fetchTopListings" -> "Error in fetchTopListings:"
      [] OTHER                     -> "Error in getLatestManga:"

NetIndex(slot, idx) ==
    CHOOSE i \in 1..Len(net) : net[i].slot = slot /\ net[i].idx = idx

InFlight(slot, idx) ==
    \E i \in 1..Len(net) :
        net[i].slot = slot /\ net[i].idx = idx /\ net[i].res = NoResponse

Answered(slot, idx) ==
    \E i \in 1..Len(net) :
        net[i].slot = slot /\ net[i].idx = idx /\ net[i].res # NoResponse

(***************************************************************************)
(* The aggregators.  One action is one turn of the event loop: the call,   *)
(* or the arrival of one answer together with every continuation that      *)
(* answer wakes (microtasks run before the next answer is delivered).      *)
(***************************************************************************)
RECURSIVE Perms(_)
Perms(S) ==
    IF S = {} THEN {<<>>}
    ELSE UNION {{<<x>> \o p : p \in Perms(S \ {x})} : x \in S}

\* mangaData.data.sort(() => Math.random() - 0.5): the comparator answers at
\* random, so the array may end in any order.
Shuffles(xs) == {[i \in 1..Len(xs) |-> xs[p[i]]] : p \in Perms(1..Len(xs))}

\* A slice that stops one short: shuffledManga.slice(0, count - 1)
getRandomMangaOneShort(shuffled, count) ==
    SubSeq(shuffled, 1, Min(count - 1, Len(shuffled)))

\* shuffledManga.slice(0, count)
getRandomManga(shuffled, count) == SubSeq(shuffled, 1, Min(count, Len(shuffled)))

AllResolved(ts) == \A i \in 1..Len(ts) : ts[i].state = "resolved"

FirstThrown(ts) ==
    ts[CHOOSE i \in 1..Len(ts) :
          /\ ts[i].state = "threw"
          /\ \A j \in 1..(i - 1) : ts[j].state # "threw"]

\* The image requests the tasks of a batch have issued, in array order.
ImageRequests(ts) ==
    LET idxs == SelectSeq(Ascending(1, Len(ts)), LAMBDA i : ts[i].state = "inflight")
    IN  [j \in 1..Len(idxs) |-> NetEntry("img", idxs[j], NoQuery, ts[idxs[j]].url)]

CallGetLatestManga ==
    /\ aggPc = "idle"
    /\ aggKind' = "getLatestManga"
    /\ net' = <<NetEntry("listing", 0, Query("updatedAt", 0, LatestLimit, "", NoIds), "")>>
    /\ aggPc' = "listing"
    /\ UNCHANGED <<corpus, aggStep, tasks, aggOut, console, fjVars, uiVars>>

CallSearchManga(search) ==
    /\ aggPc = "idle"
    /\ aggKind' = "searchManga"
    /\ net' = <<NetEntry("listing", 0, Query("", 0, 0, search, NoIds), "")>>
    /\ aggPc' = "listing"
    /\ UNCHANGED <<corpus, aggStep, tasks, aggOut, console, fjVars, uiVars>>

CallCarousel(randomOffset) ==
    /\ aggPc = "idle"
    /\ aggKind' = "Carousel"
    /\ net' = <<NetEntry("listing", 0,
                   Query("followedCount", randomOffset, CarouselLimit, "", NoIds), "")>>
    /\ aggPc' = "listing"
    /\ UNCHANGED <<corpus, aggStep, tasks, aggOut, console, fjVars, uiVars>>

\* Promise.all([fetchJson(..), fetchJson(..), fetchJson(..)]): the three calls
\* are made while the array literal is evaluated.
CallFetchTopListings ==
    /\ aggPc = "idle"
    /\ aggKind' = "fetchTopListings"
    /\ net' = [i \in 1..3 |->
                 NetEntry("query", i, Query(TopOrder(i), 0, TopLimit, "", NoIds), "")]
    /\ aggPc' = "queries"
    /\ UNCHANGED <<corpus, aggStep, tasks, aggOut, console, fjVars, uiVars>>

\* after a fetchJson that rejected: its own log, then the aggregator's catch
RejectAfterFetch(e) ==
    /\ console' = console \o <<LogEntry("Fetch error:", e), LogEntry(CatchLabel(aggKind), e)>>
    /\ aggOut' = AggRejected(e)
    /\ aggPc' = "done"

\* an exception raised in the aggregator's own code
RejectInCatch(e) ==
    /\ console' = Append(console, LogEntry(CatchLabel(aggKind), e))
    /\ aggOut' = AggRejected(e)
    /\ aggPc' = "done"

\* const latest = await fetchJson(...); const covers = await fetchCovers(ids, ...)
ListingSettle(r) ==
    /\ aggPc = "listing"
    /\ LET i    == NetIndex("listing", 0)
           out  == fetchJsonOutcome(r)
           netR == [net EXCEPT ![i].res = r]
           ids  == IF out.body.isNull THEN UndefinedIds ELSE Ids(out.body.data)
           ord  == IF aggKind = "Carousel" THEN "" ELSE "updatedAt"
       IN  IF out.kind = "rejected"
             THEN /\ net' = netR
                  /\ RejectAfterFetch(out.error)
             ELSE /\ net' = Append(netR, NetEntry("covers", 0, fetchCoversQuery(ids, ord), ""))
                  /\ aggPc' = "covers"
                  /\ UNCHANGED <<console, aggOut>>
    /\ UNCHANGED <<corpus, aggKind, aggStep, tasks, fjVars, uiVars>>

\* Promise.all(items.map(async ...)): every callback runs to its await while
\* map() builds the array; then the aggregator awaits the batch.
StartBatch(items, netR) ==
    LET ts == [i \in 1..Len(items) |-> StartTask(aggKind, items[i])]
    IN  /\ tasks' = ts
        /\ net' = netR \o ImageRequests(ts)
        /\ IF \E i \in 1..Len(ts) : ts[i].state = "threw"
             THEN RejectInCatch(FirstThrown(ts).error)
           ELSE IF ts = <<>>
             THEN aggOut' = AggResolved(<<>>) /\ aggPc' = "done" /\ console' = console
           ELSE aggPc' = "batch" /\ UNCHANGED <<console, aggOut>>

\* getLatestManga, searchManga: covers?.data?.map(...) || []
CoversSettle(r) ==
    /\ aggPc = "covers"
    /\ aggKind \in {"getLatestManga", "searchManga"}
    /\ LET i    == NetIndex("covers", 0)
           out  == fetchJsonOutcome(r)
           netR == [net EXCEPT ![i].res = r]
       IN  IF out.kind = "rejected"
             THEN net' = netR /\ RejectAfterFetch(out.error) /\ tasks' = tasks
             ELSE StartBatch(IF out.body.isNull THEN <<>> ELSE out.body.data, netR)
    /\ UNCHANGED <<corpus, aggKind, aggStep, fjVars, uiVars>>

\* Carousel: shuffle the collection in place, keep the first six
ShuffleChoices(r) ==
    IF fetchJsonOutcome(r).kind = "resolved" /\ ~fetchJsonOutcome(r).body.isNull
      THEN Shuffles(fetchJsonOutcome(r).body.data)
      ELSE {<<>>}

CarouselCoversSettle(r, shuffled) ==
    /\ aggPc = "covers"
    /\ aggKind = "Carousel"
    /\ LET i    == NetIndex("covers", 0)
           out  == fetchJsonOutcome(r)
           netR == [net EXCEPT ![i].res = r]
       IN  IF out.kind = "rejected"
             THEN net' = netR /\ RejectAfterFetch(out.error) /\ tasks' = tasks
           ELSE IF out.body.isNull
             \* mangaData?.data?.sort(...) is undefined; undefined.slice throws
             THEN net' = netR /\ RejectInCatch(PropertyError) /\ tasks' = tasks
           ELSE StartBatch(getRandomManga(shuffled, CarouselCount), netR)
    /\ UNCHANGED <<corpus, aggKind, aggStep, fjVars, uiVars>>

\* One image fetch is answered: fetchCover settles, so does the task awaiting
\* it, and with it perhaps the batch and the aggregator.
ImageSettle(i, r) ==
    /\ i \in 1..Len(tasks)
    /\ tasks[i].state = "inflight"
    /\ LET out == fetchCoverOutcome(tasks[i].url, r)
           ts  == IF out.ok
                    THEN [tasks EXCEPT ![i].state = "resolved",
                                       ![i].cover = out.cover,
                                       ![i].title = TitleFor(aggKind, TitleOfEntity(tasks[i].id))]
                    ELSE [tasks EXCEPT ![i].state = "rejected", ![i].error = out.error]
       IN  /\ tasks' = ts
           /\ net' = [net EXCEPT ![NetIndex("img", i)].res = r]
           /\ IF out.ok
                THEN /\ console' = console
                     /\ IF aggPc = "batch" /\ AllResolved(ts)
                          THEN /\ aggOut' = AggResolved([j \in 1..Len(ts) |-> ViewModel(ts[j])])
                               /\ aggPc' = "done"
                          ELSE UNCHANGED <<aggOut, aggPc>>
                ELSE IF aggPc = "batch"
                  THEN /\ console' = console \o
                             <<LogEntry("Error fetching image:", out.error),
                               LogEntry(CatchLabel(aggKind), out.error)>>
                       /\ aggOut' = AggRejected(out.error)
                       /\ aggPc' = "done"
                  ELSE /\ console' = Append(console,
                                            LogEntry("Error fetching image:", out.error))
                       /\ UNCHANGED <<aggOut, aggPc>>
    /\ UNCHANGED <<corpus, aggKind, aggStep, fjVars, uiVars>>

\* The parsed body of an answered request of the log.
BodyOf(entries, slot, idx) ==
    LET i == CHOOSE k \in 1..Len(entries) :
                 entries[k].slot = slot /\ entries[k].idx = idx
    IN  fetchJsonOutcome(entries[i].res).body

\* A lookup that takes the ids of the first ranked query for every list.
TopLookupOfFirst(j, netR) ==
    IF BodyOf(netR, "query", j).isNull
      THEN net' = netR /\ RejectInCatch(PropertyError) /\ aggStep' = aggStep
      ELSE /\ net' = Append(netR, NetEntry("covers", j,
                        fetchCoversQuery(Ids(BodyOf(netR, "query", 1).data), ""), ""))
           /\ aggPc' = "covers"
           /\ aggStep' = j
           /\ UNCHANGED <<console, aggOut>>

\* const x = await fetchCovers(reqN.data.map((manga) => manga.id)), for list j
TopLookup(j, netR) ==
    IF BodyOf(netR, "query", j).isNull
      THEN \* reqN is null: reading .data throws
           net' = netR /\ RejectInCatch(PropertyError) /\ aggStep' = aggStep
      ELSE /\ net' = Append(netR, NetEntry("covers", j,
                        fetchCoversQuery(Ids(BodyOf(netR, "query", j).data), ""), ""))
           /\ aggPc' = "covers"
           /\ aggStep' = j
           /\ UNCHANGED <<console, aggOut>>

\* One of the three ranked queries is answered.  Promise.all rejects with the
\* first rejection and resolves once all three have resolved.
TopQuerySettle(i, r) ==
    /\ aggKind = "fetchTopListings"
    /\ InFlight("query", i)
    /\ LET out  == fetchJsonOutcome(r)
           netR == [net EXCEPT ![NetIndex("query", i)].res = r]
       IN  IF out.kind = "rejected"
             THEN /\ net' = netR
                  /\ aggStep' = aggStep
                  /\ IF aggPc = "queries"
                       THEN RejectAfterFetch(out.error)
                       ELSE /\ console' = Append(console, LogEntry("Fetch error:", out.error))
                            /\ UNCHANGED <<aggOut, aggPc>>
           ELSE IF aggPc = "queries" /\ \A k \in 1..3 : netR[k].res # NoResponse
             THEN TopLookup(1, netR)
           ELSE net' = netR /\ UNCHANGED <<console, aggOut, aggPc, aggStep>>
    /\ UNCHANGED <<corpus, aggKind, tasks, fjVars, uiVars>>

\* The cover lookup of list aggStep is answered: the next lookup is made, or
\* the three lists are returned.
TopCoversSettle(r) ==
    /\ aggKind = "fetchTopListings"
    /\ aggPc = "covers"
    /\ LET j    == aggStep
           out  == fetchJsonOutcome(r)
           netR == [net EXCEPT ![NetIndex("covers", j)].res = r]
       IN  IF out.kind = "rejected"
             THEN net' = netR /\ RejectAfterFetch(out.error) /\ aggStep' = aggStep
           ELSE IF j < 3
             THEN TopLookup(j + 1, netR)
           ELSE IF \E k \in 1..3 : BodyOf(netR, "covers", k).isNull
             \* popular.data (topRated.data, topRead.data) of null throws
             THEN net' = netR /\ RejectInCatch(PropertyError) /\ aggStep' = aggStep
           ELSE /\ net' = netR
                /\ aggOut' = AggResolvedTop([k \in 1..3 |-> BodyOf(netR, "covers", k).data])
                /\ aggPc' = "done"
                /\ UNCHANGED <<console, aggStep>>
    /\ UNCHANGED <<corpus, aggKind, tasks, fjVars, uiVars>>

FjOff ==
    /\ fjPc = "off"
    /\ fjParams = <<>>
    /\ fjUrl = [endpoint |-> "", search |-> <<>>]
    /\ fjRes = NoResponse
    /\ fjErr = NoError
    /\ fjOut = Pending

AggInit ==
    /\ aggPc = "idle"
    /\ aggKind = "none"
    /\ aggStep = 0
    /\ net = <<>>
    /\ tasks = <<>>
    /\ aggOut = AggPending

Init == corpus = AggCorpus /\ AggInit /\ FjOff /\ UiOff /\ console = <<>>

\* The answer due to the request of a slot.
AnswersFor(slot, idx) == ApiResponses(net[NetIndex(slot, idx)].q)

\* The offsets that matter: every offset from corpus on gets the empty page.
RandomOffsets == {o \in 0..(RandomOffsetRange - 1) : o <= corpus}

Next ==
    \/ CallGetLatestManga
    \/ \E search \in SearchTerms : CallSearchManga(search)
    \/ \E o \in RandomOffsets : CallCarousel(o)
    \/ CallFetchTopListings
    \/ aggPc = "listing" /\ \E r \in AnswersFor("listing", 0) : ListingSettle(r)
    \/ aggPc = "covers" /\ aggKind # "fetchTopListings" /\
           \E r \in AnswersFor("covers", 0) : CoversSettle(r)
    \/ aggPc = "covers" /\ aggKind # "fetchTopListings" /\
           \E r \in AnswersFor("covers", 0) :
               \E shuffled \in ShuffleChoices(r) : CarouselCoversSettle(r, shuffled)
    \/ \E i \in 1..Len(tasks), r \in ImgResponses : ImageSettle(i, r)
    \/ \E i \in 1..3 : InFlight("query", i) /\
           \E r \in AnswersFor("query", i) : TopQuerySettle(i, r)
    \/ aggPc = "covers" /\ aggKind = "fetchTopListings" /\
           \E r \in AnswersFor("covers", aggStep) : TopCoversSettle(r)

Spec == Init /\ [][Next]_vars

(***************************************************************************)
(* Carousel alone, over the larger corpus.  The image host is healthy: the *)
(* image fetches of the batch succeed, here in array order.                *)
(***************************************************************************)
InitCarousel == corpus = CorpusSize /\ AggInit /\ FjOff /\ UiOff /\ console = <<>>

NextImageInOrder(i) ==
    /\ aggPc = "batch"
    /\ \A j \in 1..(i - 1) : tasks[j].state = "resolved"
    /\ ImageSettle(i, ImgOk)

NextCarousel ==
    \/ \E o \in RandomOffsets : CallCarousel(o)
    \/ aggPc = "listing" /\ \E r \in AnswersFor("listing", 0) : ListingSettle(r)
    \/ aggPc = "covers" /\
           \E r \in AnswersFor("covers", 0) :
               \E shuffled \in ShuffleChoices(r) : CarouselCoversSettle(r, shuffled)
    \/ \E i \in 1..Len(tasks) : NextImageInOrder(i)

SpecCarousel == InitCarousel /\ [][NextCarousel]_vars

(***************************************************************************)
(* The MangaCarousel component: the effect that auto-advances the strip.   *)
(* The element is a flex row of slides, each as wide as the element        *)
(* (min-w-[100%]) and snapping to its start.                               *)
(***************************************************************************)
Widths == {320, 1280}

\* scrollWidth of the strip: the slides side by side, never less than the box
ScrollWidth == IF slides = 0 THEN clientWidth ELSE slides * clientWidth

SlideAt(left) == left \div clientWidth

\* const [carouselItems, setCarouselItems] = useState([]); the first render
\* attaches the ref to the <div>.
InitUI ==
    /\ uiPhase = "rendered"
    /\ refCurrent = TRUE
    /\ listener = FALSE
    /\ intervalId = 0
    /\ activeTimers = {}
    /\ nextTimer = 1
    /\ slides = 0
    /\ clientWidth \in Widths
    /\ scrollLeft = 0
    /\ pendingScroll = FALSE
    /\ lastAdvance = NoAdvance
    /\ FjOff /\ AggOff /\ console = <<>>

\* Carousel().then((res) => setCarouselItems(res))
SetCarouselItems(n) ==
    /\ uiPhase \in {"rendered", "mounted"}
    /\ slides = 0
    /\ n > 0
    /\ slides' = n
    /\ UNCHANGED <<uiPhase, refCurrent, listener, intervalId, activeTimers, nextTimer,
                   clientWidth, scrollLeft, pendingScroll, lastAdvance>>
    /\ UNCHANGED <<fjVars, console, aggVars>>

\* The effect body: register handleScroll if the ref is set, startInterval().
EffectMount ==
    /\ uiPhase = "rendered"
    /\ uiPhase' = "mounted"
    /\ listener' = refCurrent
    /\ intervalId' = nextTimer
    /\ activeTimers' = activeTimers \cup {nextTimer}
    /\ nextTimer' = nextTimer + 1
    /\ UNCHANGED <<refCurrent, slides, clientWidth, scrollLeft, pendingScroll, lastAdvance>>
    /\ UNCHANGED <<fjVars, console, aggVars>>

\* Where the interval callback scrolls to.
NextScrollTarget(left, width, scrollWidth) ==
    LET nextScrollLeft == left + width
        maxScrollLeft  == scrollWidth - width
    IN  IF nextScrollLeft < maxScrollLeft THEN nextScrollLeft ELSE 0

\* The callback of interval t runs (every 10 s while t is set).
IntervalTick(t) ==
    /\ t \in activeTimers
    /\ IF refCurrent
         THEN LET target == NextScrollTarget(scrollLeft, clientWidth, ScrollWidth)
              IN  /\ scrollLeft' = target
                  /\ pendingScroll' = (pendingScroll \/ target # scrollLeft)
                  /\ lastAdvance' = [from |-> SlideAt(scrollLeft), to |-> SlideAt(target),
                                     of |-> slides, made |-> TRUE]
         ELSE UNCHANGED <<scrollLeft, pendingScroll, lastAdvance>>
    /\ UNCHANGED <<uiPhase, refCurrent, listener, intervalId, activeTimers, nextTimer,
                   slides, clientWidth>>
    /\ UNCHANGED <<fjVars, console, aggVars>>

\* The user drags the strip; it snaps to the start of slide j.
UserScroll(j) ==
    /\ uiPhase \in {"rendered", "mounted"}
    /\ j \in 0..(slides - 1)
    /\ j * clientWidth # scrollLeft
    /\ scrollLeft' = j * clientWidth
    /\ pendingScroll' = TRUE
    /\ UNCHANGED <<uiPhase, refCurrent, listener, intervalId, activeTimers, nextTimer,
                   slides, clientWidth, lastAdvance>>
    /\ UNCHANGED <<fjVars, console, aggVars>>

\* The queued scroll event is dispatched to the element.  handleScroll, if
\* registered: clearInterval(intervalId); startInterval().
ScrollEvent ==
    /\ pendingScroll
    /\ pendingScroll' = FALSE
    /\ IF listener
         THEN /\ nextTimer <= MaxTimers
              /\ activeTimers' = (activeTimers \ {intervalId}) \cup {nextTimer}
              /\ intervalId' = nextTimer
              /\ nextTimer' = nextTimer + 1
         ELSE UNCHANGED <<activeTimers, intervalId, nextTimer>>
    /\ UNCHANGED <<uiPhase, refCurrent, listener, slides, clientWidth, scrollLeft,
                   lastAdvance>>
    /\ UNCHANGED <<fjVars, console, aggVars>>

\* The component is removed: React sets the ref of the <div> to null when it
\* commits the removal, before it runs the effect's cleanup.
DetachRef ==
    /\ uiPhase = "mounted"
    /\ uiPhase' = "detached"
    /\ refCurrent' = FALSE
    /\ UNCHANGED <<listener, intervalId, activeTimers, nextTimer, slides, clientWidth,
                   scrollLeft, pendingScroll, lastAdvance>>
    /\ UNCHANGED <<fjVars, console, aggVars>>

\* The cleanup the effect returned: remove the listener if the ref is set,
\* clearInterval(intervalId).  It runs after a removal, or with the element
\* still in place when the effect is re-run.
EffectCleanup ==
    /\ uiPhase \in {"mounted", "detached"}
    /\ uiPhase' = "cleaned"
    /\ listener' = (IF refCurrent THEN FALSE ELSE listener)
    /\ activeTimers' = activeTimers \ {intervalId}
    /\ UNCHANGED <<refCurrent, intervalId, nextTimer, slides, clientWidth, scrollLeft,
                   pendingScroll, lastAdvance>>
    /\ UNCHANGED <<fjVars, console, aggVars>>

NextUI ==
    \/ \E n \in 1..MaxSlides : SetCarouselItems(n)
    \/ EffectMount
    \/ \E t \in activeTimers : IntervalTick(t)
    \/ \E j \in 0..(MaxSlides - 1) : UserScroll(j)
    \/ ScrollEvent
    \/ DetachRef
    \/ EffectCleanup

SpecUI == InitUI /\ [][NextUI]_vars

(***************************************************************************)
(* Properties                                                              *)
(***************************************************************************)
SuccessRange == 200..299

\* A request of the log whose answer is a failure: no answer could be had,
\* the status is not a success, or (API calls) the body is not JSON.
IsFailure(e) ==
    /\ e.res # NoResponse
    /\ \/ e.res.kind = "network_error"
       \/ e.res.status \notin SuccessRange
       \/ e.slot # "img" /\ ~e.res.valid

\* err is the error of the failure e: it carries the status when the cause is
\* a status outside the success range.
CarriesCause(err, e) ==
    IF e.res.kind = "http" /\ e.res.status \notin SuccessRange
      THEN err.name = "Error" /\ err.status = e.res.status
      ELSE err.name \in {"TypeError", "SyntaxError"} /\ err.status = 0

SomeFailure == \E i \in 1..Len(net) : IsFailure(net[i])

FetchJsonRejectsOrParses ==
    /\ fjOut.kind = "resolved" =>
          /\ fjRes.kind = "http"
          /\ fjRes.status \in SuccessRange
          /\ fjRes.valid
          /\ fjOut.body = fjRes.body
    /\ fjPc = "done" =>
          /\ fjOut.kind \in {"resolved", "rejected"}
          /\ (fjRes.kind = "http" /\ fjRes.status \in SuccessRange /\ fjRes.valid)
                => fjOut.kind = "resolved"
          /\ fjOut = fetchJsonOutcome(fjRes)
    /\ fjOut.kind = "rejected" =>
          /\ console # <<>>
          /\ console[Len(console)] = [label |-> "Fetch error:", error |-> fjOut.error]
          /\ (fjRes.kind = "http" /\ fjRes.status \notin SuccessRange) =>
                /\ fjOut.error.status = fjRes.status
                /\ fjOut.error.message =
                      "HTTP error! Status: " \o Join(NumberToString(fjRes.status))
    /\ fjOut.kind = "pending" => console = <<>>

\* C2 witness: a 304 with a well-formed body was rejected and logged.
FetchJsonRejectsOrParsesWitness ==
    /\ fjPc = "done"
    /\ fjRes.status = 304
    /\ fjRes.valid
    /\ fjOut.kind = "rejected"
    /\ Len(console) = 1

HasNoCoverArt(n) ==
    \A k \in 1..Len(RelationshipsOf(n)) : RelationshipsOf(n)[k].type # "cover_art"

\* C3.  In getLatestManga, searchManga and Carousel, a manga of the cover
\* collection without a cover_art relationship (or without relationships)
\* has its cover-file lookup yield undefined, and its task does not throw.
MissingCoverArtYieldsUndefined ==
    aggKind \in WithCover =>
      \A i \in 1..Len(tasks) :
          HasNoCoverArt(tasks[i].id) =>
              tasks[i].state # "threw" /\ tasks[i].file = Undefined

\* The page the listing call of the log was answered with.
FetchedPage == net[NetIndex("listing", 0)].res.body.data

PageWasFetched ==
    /\ Answered("listing", 0)
    /\ ~IsFailure(net[NetIndex("listing", 0)])
    /\ ~net[NetIndex("listing", 0)].res.body.isNull

SameEntities(xs, ys) ==
    {xs[i] : i \in 1..Len(xs)} = {ys[i] : i \in 1..Len(ys)}

CoversReturnedThePage ==
    /\ Answered("covers", 0)
    /\ ~IsFailure(net[NetIndex("covers", 0)])
    /\ ~net[NetIndex("covers", 0)].res.body.isNull
    /\ SameEntities(net[NetIndex("covers", 0)].res.body.data, FetchedPage)

\* C4.  Carousel selection: when the fetched page holds at least
\* CarouselCount manga (the claim's page of 20 is one such page) and the
\* cover lookup returned the same manga, then whatever the shuffle did the
\* manga selected are exactly CarouselCount, pairwise distinct and all of
\* the fetched page; and once every image fetch of the batch has succeeded
\* Carousel has resolved with exactly the view models of the manga selected.
CarouselSelectsSixOfThePage ==
    ( /\ aggKind = "Carousel"
      /\ PageWasFetched
      /\ Len(FetchedPage) >= CarouselCount
      /\ CoversReturnedThePage )
    =>
    ( /\ Len(tasks) = CarouselCount
      /\ \A i, j \in 1..Len(tasks) : tasks[i].id = tasks[j].id => i = j
      /\ \A i \in 1..Len(tasks) : InSeq(tasks[i].id, FetchedPage)
      /\ (\A i \in 1..Len(tasks) : tasks[i].state = "resolved") =>
            /\ aggOut.kind = "resolved"
            /\ Len(aggOut.value) = CarouselCount
            /\ \A i \in 1..CarouselCount : aggOut.value[i].id = tasks[i].id
            /\ \A i, j \in 1..Len(aggOut.value) :
                  aggOut.value[i].id = aggOut.value[j].id => i = j
            /\ \A i \in 1..Len(aggOut.value) : InSeq(aggOut.value[i].id, FetchedPage) )

\* C4 witness: a page of more than CarouselCount manga, six view models
\* returned, the first of them not the first manga of the page.
CarouselSelectsSixOfThePageWitness ==
    /\ aggKind = "Carousel"
    /\ PageWasFetched
    /\ Len(FetchedPage) > CarouselCount
    /\ CoversReturnedThePage
    /\ aggOut.kind = "resolved"
    /\ Len(aggOut.value) = CarouselCount
    /\ aggOut.value[1].id # FetchedPage[1]

Missing(x) == x = Undefined \/ x = ""

\* C5.  Title fallback: the title of every view model built by
\* getLatestManga, searchManga or Carousel is the manga's "en" title when
\* that is present and not empty, and its "ja-ro" title when "en" is missing
\* or empty and "ja-ro" is present and not empty.
TitleFallsBackToRomaji ==
    aggKind \in WithCover =>
      /\ \A i \in 1..Len(tasks) :
            tasks[i].state = "resolved" =>
               LET t == TitleOfEntity(tasks[i].id)
               IN  /\ ~Missing(t.en) => tasks[i].title = t.en
                   /\ (Missing(t.en) /\ ~Missing(t.jaro)) => tasks[i].title = t.jaro
      /\ \A i \in 1..Len(aggOut.value) :
            /\ aggOut.value[i].id = tasks[i].id
            /\ aggOut.value[i].title = tasks[i].title

\* C5 witness: Carousel returned "Foo" for a manga that has no "en" title.
TitleFallsBackToRomajiWitness ==
    /\ aggKind = "Carousel"
    /\ aggOut.kind = "resolved"
    /\ \E i \in 1..Len(aggOut.value) :
          /\ TitleOfEntity(aggOut.value[i].id).en = Undefined
          /\ aggOut.value[i].title = "Foo"

\* The pairs the claimed serialisation is made of, key by key in insertion
\* order: name[]=v per element of an array, name[key]=value per entry of a
\* nested object, one pair name=value for a scalar, a Date included.
RECURSIVE ClaimedPairs(_)
ClaimedPairs(kvs) ==
    IF kvs = <<>> THEN <<>>
    ELSE LET key == Head(kvs)[1]
             v   == Head(kvs)[2]
             own == CASE v.t = "array" ->
                           [i \in 1..Len(v.items) |-> <<key \o <<"[", "]">>, v.items[i]>>]
                      [] v.t = "object" ->
                           [i \in 1..Len(v.entries) |->
                               <<key \o <<"[">> \o v.entries[i][1] \o <<"]">>,
                                 v.entries[i][2]>>]
                      [] OTHER -> << <<key, v.text>> >>
         IN  own \o ClaimedPairs(Tail(kvs))

\* C6.  Query serialisation: the query string fetchJson puts in the URL is
\* the claimed concatenation (array: name[]=v per element; nested object:
\* name[key]=value per entry; scalar, a Date included: one pair name=value),
\* in key insertion order, as URLSearchParams writes it out.
QueryIsTheClaimedConcatenation ==
    fjPc \in {"fetching", "parsing", "caught", "done"} =>
        fjUrl.search = SearchParamsToString(ClaimedPairs(fjParams))

TopEntries(slot) == {i \in 1..Len(net) : net[i].slot = slot}

\* the three ranked queries are all issued before any answer is awaited
TopQueriesIssuedTogether ==
    (aggKind = "fetchTopListings") =>
        /\ Len(net) >= 3
        /\ \A i \in 1..3 :
              /\ net[i].slot = "query" /\ net[i].idx = i
              /\ net[i].q = Query(TopOrder(i), 0, TopLimit, "", NoIds)

\* each returned list comes from its own ranked query and its own lookup
TopListsFromOwnQuery ==
    (aggKind = "fetchTopListings" /\ aggOut.kind = "resolved") =>
        \A j \in 1..3 :
            /\ aggOut.lists[j] = net[NetIndex("covers", j)].res.body.data
            /\ net[NetIndex("covers", j)].q.ids =
                  Ids(net[NetIndex("query", j)].res.body.data)

\* The requests list j rests on: its ranked query and its cover lookup.
OwnRequestsFailed(j) ==
    \E i \in 1..Len(net) :
        net[i].slot \in {"query", "covers"} /\ net[i].idx = j /\ IsFailure(net[i])

Succeeded(slot, j) ==
    \E i \in 1..Len(net) :
        /\ net[i].slot = slot /\ net[i].idx = j
        /\ net[i].res # NoResponse /\ ~IsFailure(net[i])

\* list j has been computed: its cover lookup was made and answered
ListComputed(j) == Succeeded("covers", j)

\* C7 as stated.  The three ranked queries are issued together, each list
\* comes from its own query and lookup, and once the call is over a list
\* whose own query and lookup did not fail has been computed even if a
\* request of another list failed.
TopListsAreIndependent ==
    /\ TopQueriesIssuedTogether
    /\ TopListsFromOwnQuery
    /\ (aggKind = "fetchTopListings" /\ aggPc = "done") =>
          \A j \in 1..3 :
              ((\E k \in 1..3 : OwnRequestsFailed(k)) /\ ~OwnRequestsFailed(j))
                  => ListComputed(j)

\* C7 as amended.  The three ranked queries are issued together and each
\* returned list comes from its own query and lookup; but a failure of one
\* list's query or lookup rejects the whole call and no list is returned,
\* and the cover lookup of a list is only made once all three queries and
\* the lookups of the lists before it have succeeded.
TopListsFailTogether ==
    /\ TopQueriesIssuedTogether
    /\ TopListsFromOwnQuery
    /\ aggKind = "fetchTopListings" =>
          /\ (\E k \in 1..3 : OwnRequestsFailed(k)) =>
                aggOut.kind = "rejected" /\ aggOut.lists = <<>>
          /\ \A i \in TopEntries("covers") :
                /\ \A k \in 1..3 : Succeeded("query", k)
                /\ \A k \in 1..(net[i].idx - 1) : Succeeded("covers", k)

\* C7 witness: the rating query failed, the two other queries succeeded, and
\* the call is over, rejected.
TopListsFailTogetherWitness ==
    /\ aggKind = "fetchTopListings"
    /\ aggPc = "done"
    /\ OwnRequestsFailed(2)
    /\ Answered("query", 1) /\ ~OwnRequestsFailed(1)
    /\ Answered("query", 3) /\ ~OwnRequestsFailed(3)
    /\ aggOut.kind = "rejected"

ImageRequestCount == Cardinality({i \in 1..Len(net) : net[i].slot = "img"})

\* C8.  The image fetches are one parallel batch: once the cover collection
\* of N manga has arrived, N image fetches have been issued (before any of
\* them completes); the aggregator resolves only when all N are answered,
\* with the view models in the order of the collection's items.
ImageFetchesAreOneBatch ==
    ( /\ aggKind \in WithCover
      /\ Answered("covers", 0)
      /\ ~IsFailure(net[NetIndex("covers", 0)])
      /\ ~net[NetIndex("covers", 0)].res.body.isNull )
    =>
    LET N == Len(net[NetIndex("covers", 0)].res.body.data)
    IN  /\ ImageRequestCount = N
        /\ aggOut.kind = "resolved" =>
              /\ \A i \in 1..Len(net) : net[i].res # NoResponse
              /\ Len(aggOut.value) = N
              /\ \A i \in 1..N : aggOut.value[i].id = tasks[i].id

\* C9.  At most one auto-advance interval is set at any time, and none is
\* left once the effect's cleanup has run.
AtMostOneIntervalAndNoneAfterCleanup ==
    /\ Cardinality(activeTimers) <= 1
    /\ uiPhase = "cleaned" => activeTimers = {}

\* C10.  Auto-advance goes through every slide: a tick moves from slide i to
\* slide i + 1 for every slide before the last, and goes back to the first
\* slide only from the last.
AutoAdvanceVisitsEverySlide ==
    (lastAdvance.made /\ lastAdvance.of >= 1) =>
        /\ lastAdvance.from < lastAdvance.of - 1 => lastAdvance.to = lastAdvance.from + 1
        /\ lastAdvance.from = lastAdvance.of - 1 => lastAdvance.to = 0

=============================================================================
